---- MODULE Spec2Model ----
(***************************************************************************)
(* Lottie cache demo: the Express server of server/index.js (in-memory     *)
(* state currentVersion, mode, lastModified, requestCount and its six      *)
(* endpoints).  Spec takes each endpoint as one atomic action; SpecLoop     *)
(* runs the handlers statement by statement under Node's event loop;       *)
(* SpecApp runs the async button handlers of the client app (App.tsx,      *)
(* src/api.ts) against the server, with responses arriving in any order.   *)
(***************************************************************************)
EXTENDS Integers, Sequences, FiniteSets, TLC

\* ---------------------------------------------------------------- bounds
\* GET /lottie.json is served only while requestCount < MaxRequests.
MaxRequests == 3
\* Number of handler activations the event loop model has room for.
MaxInFlight == 2
\* Number of buttons the user presses in a run of the client app.
MaxPresses == 2

\* ------------------------------------------------------------- JS values
Undefined == [t |-> "undefined"]
Null == [t |-> "null"]
Str(s) == [t |-> "string", v |-> s]
Num(n) == [t |-> "number", v |-> n]

\* JavaScript ToBoolean, as used by `clientETag && ...` and `!iso`.
Truthy(x) ==
  CASE x.t = "undefined" -> FALSE
    [] x.t = "null" -> FALSE
    [] x.t = "string" -> x.v # ""
    [] x.t = "number" -> x.v # 0
    [] x.t = "object" -> TRUE

\* JavaScript === on the value kinds above.
StrictEq(a, b) ==
  /\ a.t = b.t
  /\ (a.t \in {"string", "number"} => a.v = b.v)

\* ------------------------------------------------------------------ dates
\* A Date is its time value in whole seconds since the epoch (every date
\* of the model has a zero millisecond part); NaN is the invalid Date.
NaN == -1

\* Date.parse on the strings the model sends.
DateParse(s) ==
  CASE s = "2025-12-01T00:00:00Z" -> 1764547200
    [] s = "2025-12-15T00:00:00Z" -> 1765756800
    [] s = "2025-06-15T00:00:00Z" -> 1749945600
    [] s = "2025-12-15T00:00:00.000Z" -> 1765756800
    [] OTHER -> NaN

\* new Date(value): a string is parsed, a number is a time value in ms,
\* undefined is NaN and null is 0.
NewDate(x) ==
  CASE x.t = "string" -> DateParse(x.v)
    [] x.t = "number" -> x.v \div 1000
    [] x.t = "null" -> 0
    [] x.t = "undefined" -> NaN

\* Civil date of a day number (days since 1970-01-01), proleptic Gregorian.
CivilFromDays(days) ==
  LET z == days + 719468
      era == z \div 146097
      doe == z - era * 146097
      yoe == (doe - doe \div 1460 + doe \div 36524 - doe \div 146096) \div 365
      doy == doe - (365 * yoe + yoe \div 4 - yoe \div 100)
      mp == (5 * doy + 2) \div 153
      d == doy - (153 * mp + 2) \div 5 + 1
      m == IF mp < 10 THEN mp + 3 ELSE mp - 9
      y == yoe + era * 400 + (IF m <= 2 THEN 1 ELSE 0)
  IN [year |-> y, month |-> m, day |-> d]

Pad2(n) == IF n < 10 THEN "0" \o ToString(n) ELSE ToString(n)

DayNames == <<"Sun", "Mon", "Tue", "Wed", "Thu", "Fri", "Sat">>
MonthNames == <<"Jan", "Feb", "Mar", "Apr", "May", "Jun",
                "Jul", "Aug", "Sep", "Oct", "Nov", "Dec">>

TimeOfDay(date) ==
  LET s == date % 86400
  IN Pad2(s \div 3600) \o ":" \o Pad2((s % 3600) \div 60) \o ":" \o Pad2(s % 60)

\* Date.prototype.toUTCString: "Mon, 01 Dec 2025 00:00:00 GMT"
toUTCString(date) ==
  LET days == date \div 86400
      c == CivilFromDays(days)
  IN DayNames[((days + 4) % 7) + 1] \o ", " \o Pad2(c.day) \o " "
       \o MonthNames[c.month] \o " " \o ToString(c.year) \o " "
       \o TimeOfDay(date) \o " GMT"

\* Date.prototype.toISOString: "2025-12-01T00:00:00.000Z"
toISOString(date) ==
  LET c == CivilFromDays(date \div 86400)
  IN ToString(c.year) \o "-" \o Pad2(c.month) \o "-" \o Pad2(c.day) \o "T"
       \o TimeOfDay(date) \o ".000Z"

\* --------------------------------------------------------------- payloads
\* server/assets/v1.json and v2.json, the two canned Lottie payloads.
Assets ==
  ("v1.json" :> "{\"demoVersion\":1,\"nm\":\"blue circle\"}")
  @@ ("v2.json" :> "{\"demoVersion\":2,\"nm\":\"red square\"}")

loadLottie(version) == Assets["v" \o ToString(version) \o ".json"]

\* crypto.createHash("sha256").update(body).digest("hex"): one hex digest
\* per content, different contents have different digests.
Sha256Hex(body) ==
  CASE body = Assets["v1.json"] -> "3f1a9c"
    [] body = Assets["v2.json"] -> "b7e204"

computeETag(body) == "\"" \o Sha256Hex(body) \o "\""

\* ------------------------------------------------------------------ state
\* currentVersion: 1 or 2, the payload being served
\* mode: "A" = no Cache-Control, "B" = with Cache-Control
\* lastModified: a Date
\* requestCount: number of GET /lottie.json requests handled
\* last: the most recent request/response exchange
\* inflight: the handler activations in progress (SpecLoop), by slot
\* answered: number of GET /lottie.json responses sent since the counter was
\*           last zeroed (SpecLoop)
\* loading, serverState, animationJson, pngBase64, svgXml: the useState values
\*           of the client app (SpecApp)
\* handlers: the activations of the app's async button handlers, in the
\*           order of the presses (SpecApp)
\* presses: number of buttons pressed so far (SpecApp)
VARIABLES currentVersion, mode, lastModified, requestCount, last, inflight, answered, loading, serverState, animationJson, pngBase64, svgXml, handlers, presses

vars ==
  <<currentVersion, mode, lastModified, requestCount, last, inflight, answered,
    loading, serverState, animationJson, pngBase64, svgXml, handlers, presses>>

appVars == <<loading, serverState, animationJson, pngBase64, svgXml, handlers, presses>>

loopVars == <<inflight, answered>>

Slots == 1 .. MaxInFlight

\* A slot with no handler running.
Idle == [pc |-> "idle"]

\* The four module-level variables of the server as one value.
State ==
  [currentVersion |-> currentVersion, mode |-> mode,
   lastModified |-> lastModified, requestCount |-> requestCount]

\* One exchange: the request, the response, and the server state when the
\* request arrived.
Exchange(req, res) == [req |-> req, res |-> res, before |-> State]

\* Before the first request.
NoExchange ==
  [req |-> [op |-> "none"], res |-> [status |-> 0],
   before |-> [currentVersion |-> 1, mode |-> "A",
               lastModified |-> NewDate(Str("2025-12-01T00:00:00Z")), requestCount |-> 0]]

\* ------------------------------------------------------- request alphabet
ETag1 == computeETag(loadLottie(1))
ETag2 == computeETag(loadLottie(2))

\* If-None-Match: absent, empty, the two ETags, a weak-prefixed and an
\* unquoted form of each, and "*".
IfNoneMatchValues ==
  {Undefined, Str(""), Str("*"), Str(ETag1), Str(ETag2),
   Str("W/" \o ETag1), Str("W/" \o ETag2),
   Str(Sha256Hex(loadLottie(1))), Str(Sha256Hex(loadLottie(2)))}

IfModifiedSinceValues == {Undefined, Str("Mon, 01 Dec 2025 00:00:00 GMT")}

\* req.body.mode
ModeValues == {Undefined, Null, Str("A"), Str("B"), Str("C"), Str("a"), Str("")}

\* req.body.iso
IsoValues ==
  {Undefined, Null, Str(""), Num(0), Str("not-a-date"), Str("2025-13-45T00:00:00Z"),
   Str("2025-12-15T00:00:00Z"), Str("2025-06-15T00:00:00Z"), Num(86400000)}

\* --------------------------------------------------------------- handlers
\* The value the README documents for mode B.
CacheControlValueWithMustRevalidate == "public, max-age=30, must-revalidate"

\* res.set("Cache-Control", "public, max-age=30")
CacheControlValue == "public, max-age=30"

\* The conditional GET never taken.
ETagMatchesNever(clientETag, etag) == FALSE

\* A weak comparison: the W/ prefix is ignored.
ETagMatchesWeakly(clientETag, etag) ==
  /\ Truthy(clientETag)
  /\ (StrictEq(clientETag, Str(etag)) \/ StrictEq(clientETag, Str("W/" \o etag)))

\* if (clientETag && clientETag === etag)
ETagMatches(clientETag, etag) ==
  Truthy(clientETag) /\ StrictEq(clientETag, Str(etag))

\* The `if (mode === "B")` header left out.
ValidatorHeadersWithoutCacheControl(etag, lastMod) ==
  ("ETag" :> etag) @@ ("Last-Modified" :> lastMod)

\* The Last-Modified header left out.
ValidatorHeadersWithoutLastModified(etag, lastMod) ==
  ("ETag" :> etag)
  @@ (IF mode = "B" THEN "Cache-Control" :> CacheControlValue ELSE << >>)

\* The headers both branches of GET /lottie.json set.
ValidatorHeaders(etag, lastMod) ==
  ("ETag" :> etag) @@ ("Last-Modified" :> lastMod)
  @@ (IF mode = "B" THEN "Cache-Control" :> CacheControlValue ELSE << >>)

JsonContentType == "Content-Type" :> "application/json; charset=utf-8"

IncrementedTwice(n) == n + 2

NotIncremented(n) == n

\* requestCount++
Incremented(n) == n + 1

\* The handler with the increment moved into the full-response branch.
LottieHandlerCountingOnly200(headers) ==
  LET body == loadLottie(currentVersion)
      etag == computeETag(body)
      lastMod == toUTCString(lastModified)
      clientETag == headers["if-none-match"]
  IN IF ETagMatches(clientETag, etag)
       THEN [requestCount |-> requestCount,
             res |-> [status |-> 304, headers |-> ValidatorHeaders(etag, lastMod),
                      body |-> ""]]
       ELSE [requestCount |-> Incremented(requestCount),
             res |-> [status |-> 200,
                      headers |-> JsonContentType @@ ValidatorHeaders(etag, lastMod),
                      body |-> body]]

\* The response with a timestamp-only fallback: an If-Modified-Since equal
\* to Last-Modified also gives 304.
LottieResponseHonouringIfModifiedSince(version, lastModifiedDate, headers) ==
  LET body == loadLottie(version)
      etag == computeETag(body)
      lastMod == toUTCString(lastModifiedDate)
      clientETag == headers["if-none-match"]
  IN IF \/ ETagMatches(clientETag, etag)
        \/ StrictEq(headers["if-modified-since"], Str(lastMod))
       THEN [status |-> 304, headers |-> ValidatorHeaders(etag, lastMod), body |-> ""]
       ELSE [status |-> 200,
             headers |-> JsonContentType @@ ValidatorHeaders(etag, lastMod),
             body |-> body]

\* The response with a fingerprint that also takes in the mode.
LottieResponseFingerprintingMode(version, lastModifiedDate, headers) ==
  LET body == loadLottie(version)
      etag == "\"" \o Sha256Hex(body) \o (IF mode = "B" THEN "-B" ELSE "") \o "\""
      lastMod == toUTCString(lastModifiedDate)
      clientETag == headers["if-none-match"]
  IN IF ETagMatches(clientETag, etag)
       THEN [status |-> 304, headers |-> ValidatorHeaders(etag, lastMod), body |-> ""]
       ELSE [status |-> 200,
             headers |-> JsonContentType @@ ValidatorHeaders(etag, lastMod),
             body |-> body]

\* app.get("/lottie.json"), lines 35-66: the response for the version being
\* served, the lastModified date and the request headers.
LottieResponse(version, lastModifiedDate, headers) ==
  LET body == loadLottie(version)
      etag == computeETag(body)
      lastMod == toUTCString(lastModifiedDate)
      clientETag == headers["if-none-match"]
  IN IF ETagMatches(clientETag, etag)
       THEN [status |-> 304, headers |-> ValidatorHeaders(etag, lastMod), body |-> ""]
       ELSE [status |-> 200,
             headers |-> JsonContentType @@ ValidatorHeaders(etag, lastMod),
             body |-> body]

\* app.get("/lottie.json"): the new counter value and the response.
LottieHandler(headers) ==
  [requestCount |-> Incremented(requestCount),
   res |-> LottieResponse(currentVersion, lastModified, headers)]

\* currentVersion === 1 ? 2 : 2
FlipVersionStuck(version) == IF version = 1 THEN 2 ELSE 2

\* currentVersion = currentVersion === 1 ? 2 : 1
FlipVersion(version) == IF version = 1 THEN 2 ELSE 1

\* Any string is taken as a mode.
ValidModeAnyString(newMode) == newMode.t = "string"

\* !(newMode !== "A" && newMode !== "B")
ValidMode(newMode) ==
  ~(~StrictEq(newMode, Str("A")) /\ ~StrictEq(newMode, Str("B")))

\* The handler refusing a mode the server is already in.
ModeHandlerRejectingSameMode(newMode) ==
  IF ~ValidMode(newMode) \/ newMode.v = mode
    THEN [mode |-> mode,
          res |-> [status |-> 400, headers |-> JsonContentType,
                   body |-> [error |-> "mode must be 'A' or 'B'"]]]
    ELSE [mode |-> newMode.v,
          res |-> [status |-> 200, headers |-> JsonContentType,
                   body |-> [mode |-> newMode.v]]]

\* app.post("/mode"): the new mode and the response.
ModeHandler(newMode) ==
  IF ~ValidMode(newMode)
    THEN [mode |-> mode,
          res |-> [status |-> 400, headers |-> JsonContentType,
                   body |-> [error |-> "mode must be 'A' or 'B'"]]]
    ELSE [mode |-> newMode.v,
          res |-> [status |-> 200, headers |-> JsonContentType,
                   body |-> [mode |-> newMode.v]]]

\* The validity test left out.
InvalidDateNever(date) == FALSE

\* isNaN(date.getTime())
InvalidDate(date) == date = NaN

\* The handler answering 200 without the assignment of line 97.
LastModifiedHandlerNotStoring(iso) ==
  IF ~Truthy(iso)
    THEN [lastModified |-> lastModified,
          res |-> [status |-> 400, headers |-> JsonContentType,
                   body |-> [error |-> "iso field required"]]]
    ELSE LET date == NewDate(iso)
         IN IF InvalidDate(date)
              THEN [lastModified |-> lastModified,
                    res |-> [status |-> 400, headers |-> JsonContentType,
                             body |-> [error |-> "invalid ISO date"]]]
              ELSE [lastModified |-> lastModified,
                    res |-> [status |-> 200, headers |-> JsonContentType,
                             body |-> [lastModified |-> toISOString(date)]]]

\* app.post("/lastModified"): the new lastModified and the response.
LastModifiedHandler(iso) ==
  IF ~Truthy(iso)
    THEN [lastModified |-> lastModified,
          res |-> [status |-> 400, headers |-> JsonContentType,
                   body |-> [error |-> "iso field required"]]]
    ELSE LET date == NewDate(iso)
         IN IF InvalidDate(date)
              THEN [lastModified |-> lastModified,
                    res |-> [status |-> 400, headers |-> JsonContentType,
                             body |-> [error |-> "invalid ISO date"]]]
              ELSE [lastModified |-> date,
                    res |-> [status |-> 200, headers |-> JsonContentType,
                             body |-> [lastModified |-> toISOString(date)]]]

\* The snapshot with cacheControl not depending on the mode.
StateBodyAlwaysCacheControl ==
  [mode |-> mode,
   version |-> currentVersion,
   lastModified |-> toISOString(lastModified),
   etag |-> computeETag(loadLottie(currentVersion)),
   requestCount |-> requestCount,
   cacheControl |-> Str(CacheControlValue)]

\* app.get("/state"): the JSON snapshot.
StateBody ==
  [mode |-> mode,
   version |-> currentVersion,
   lastModified |-> toISOString(lastModified),
   etag |-> computeETag(loadLottie(currentVersion)),
   requestCount |-> requestCount,
   cacheControl |-> IF mode = "B" THEN Str(CacheControlValue) ELSE Null]

\* The reset without `requestCount = 0`.
ResetStateKeepingCount ==
  [currentVersion |-> 1, mode |-> "A",
   lastModified |-> NewDate(Str("2025-12-01T00:00:00Z")), requestCount |-> requestCount]

\* app.post("/reset"): the values the four variables are set to.
ResetState ==
  [currentVersion |-> 1, mode |-> "A",
   lastModified |-> NewDate(Str("2025-12-01T00:00:00Z")), requestCount |-> 0]

\* ---------------------------------------------------------------- actions
Init ==
  /\ currentVersion = 1
  /\ mode = "A"
  /\ lastModified = NewDate(Str("2025-12-01T00:00:00Z"))
  /\ requestCount = 0
  /\ last = NoExchange
  /\ inflight = [s \in Slots |-> Idle]
  /\ answered = 0
  /\ loading = FALSE
  /\ serverState = Null
  /\ animationJson = Null
  /\ pngBase64 = Null
  /\ svgXml = Null
  /\ handlers = [s \in 1 .. MaxPresses |-> Idle]
  /\ presses = 0

GetLottie ==
  \E inm \in IfNoneMatchValues, ims \in IfModifiedSinceValues :
    LET headers == [x \in {"if-none-match", "if-modified-since"} |->
                      IF x = "if-none-match" THEN inm ELSE ims]
        r == LottieHandler(headers)
    IN /\ requestCount < MaxRequests
       /\ requestCount' = r.requestCount
       /\ last' = Exchange([op |-> "GET /lottie.json", headers |-> headers], r.res)
       /\ UNCHANGED <<currentVersion, mode, lastModified>>

\* The flip answering with the version it found instead of the new one.
PostFlipReportingOld ==
  /\ currentVersion' = FlipVersion(currentVersion)
  /\ last' = Exchange([op |-> "POST /flip"],
                      [status |-> 200, headers |-> JsonContentType,
                       body |-> [version |-> currentVersion]])
  /\ UNCHANGED <<mode, lastModified, requestCount>>

\* The flip also counted as a request.
PostFlipCounting ==
  /\ currentVersion' = FlipVersion(currentVersion)
  /\ requestCount' = IF requestCount < MaxRequests
                        THEN Incremented(requestCount) ELSE requestCount
  /\ last' = Exchange([op |-> "POST /flip"],
                      [status |-> 200, headers |-> JsonContentType,
                       body |-> [version |-> currentVersion']])
  /\ UNCHANGED <<mode, lastModified>>

PostFlip ==
  /\ currentVersion' = FlipVersion(currentVersion)
  /\ last' = Exchange([op |-> "POST /flip"],
                      [status |-> 200, headers |-> JsonContentType,
                       body |-> [version |-> currentVersion']])
  /\ UNCHANGED <<mode, lastModified, requestCount>>

PostMode ==
  \E newMode \in ModeValues :
    LET r == ModeHandler(newMode)
    IN /\ mode' = r.mode
       /\ last' = Exchange([op |-> "POST /mode", body |-> [mode |-> newMode]], r.res)
       /\ UNCHANGED <<currentVersion, lastModified, requestCount>>

PostLastModified ==
  \E iso \in IsoValues :
    LET r == LastModifiedHandler(iso)
    IN /\ lastModified' = r.lastModified
       /\ last' = Exchange([op |-> "POST /lastModified", body |-> [iso |-> iso]], r.res)
       /\ UNCHANGED <<currentVersion, mode, requestCount>>

\* GET /state counted as a request.
GetStateCounting ==
  /\ requestCount < MaxRequests
  /\ requestCount' = Incremented(requestCount)
  /\ last' = Exchange([op |-> "GET /state"],
                      [status |-> 200, headers |-> JsonContentType, body |-> StateBody])
  /\ UNCHANGED <<currentVersion, mode, lastModified>>

GetState ==
  /\ last' = Exchange([op |-> "GET /state"],
                      [status |-> 200, headers |-> JsonContentType, body |-> StateBody])
  /\ UNCHANGED <<currentVersion, mode, lastModified, requestCount>>

PostReset ==
  /\ currentVersion' = ResetState.currentVersion
  /\ mode' = ResetState.mode
  /\ lastModified' = ResetState.lastModified
  /\ requestCount' = ResetState.requestCount
  /\ last' = Exchange([op |-> "POST /reset"],
                      [status |-> 200, headers |-> JsonContentType, body |-> [ok |-> TRUE]])

Next ==
  \/ GetLottie /\ UNCHANGED <<loopVars, appVars>>
  \/ PostFlip /\ UNCHANGED <<loopVars, appVars>>
  \/ PostMode /\ UNCHANGED <<loopVars, appVars>>
  \/ PostLastModified /\ UNCHANGED <<loopVars, appVars>>
  \/ GetState /\ UNCHANGED <<loopVars, appVars>>
  \/ PostReset /\ UNCHANGED <<loopVars, appVars>>

Spec == Init /\ [][Next]_vars

\* ------------------------------------------------------------ event loop
\* The requests a client can send.
Requests ==
  {[op |-> "GET /lottie.json",
    headers |-> [x \in {"if-none-match", "if-modified-since"} |->
                   IF x = "if-none-match" THEN inm ELSE ims]] :
     inm \in IfNoneMatchValues, ims \in IfModifiedSinceValues}
  \cup {[op |-> "POST /flip"], [op |-> "GET /state"], [op |-> "POST /reset"]}
  \cup {[op |-> "POST /mode", body |-> [mode |-> newMode]] : newMode \in ModeValues}
  \cup {[op |-> "POST /lastModified", body |-> [iso |-> iso]] : iso \in IsoValues}

AllIdle == \A s \in Slots : inflight[s] = Idle

\* A handler is entered whatever the other activations are doing.
CanDispatchAnytime == TRUE

\* The handlers are synchronous functions (no await, no callback, file reads
\* with readFileSync), so the event loop enters a handler only when the one
\* before it has returned.
CanDispatch == AllIdle

\* The first statement of each handler.
FirstLine(req) ==
  CASE req.op = "GET /lottie.json" -> "L34r"
    [] req.op = "POST /flip" -> "L71r"
    [] req.op = "POST /mode" -> "L79"
    [] req.op = "POST /lastModified" -> "L90"
    [] req.op = "GET /state" -> "L104"
    [] req.op = "POST /reset" -> "L118"

\* The event loop enters the handler of a request that has arrived.
Dispatch ==
  \E req \in Requests :
    /\ CanDispatch
    /\ \E s \in Slots : inflight[s] = Idle
    /\ req.op = "GET /lottie.json"
         => answered + Cardinality({s \in Slots : /\ inflight[s] # Idle
                                                 /\ inflight[s].req.op = req.op})
              < MaxRequests
    /\ LET s == CHOOSE s \in Slots :
                  /\ inflight[s] = Idle
                  /\ \A t \in Slots : t < s => inflight[t] # Idle
       IN inflight' = [inflight EXCEPT ![s] =
                         [req |-> req, pc |-> FirstLine(req), start |-> State,
                          loc |-> << >>]]
    /\ UNCHANGED <<currentVersion, mode, lastModified, requestCount, last, answered>>

\* The activation of slot s moves to statement pc with locals loc.
Advance(s, pc, loc) ==
  /\ inflight' = [inflight EXCEPT ![s].pc = pc, ![s].loc = loc]
  /\ UNCHANGED last

\* The activation of slot s sends res and returns.
Finish(s, res) ==
  /\ last' = [req |-> inflight[s].req, res |-> res, before |-> inflight[s].start]
  /\ inflight' = [inflight EXCEPT ![s] = Idle]

Running(s, op) == inflight[s] # Idle /\ inflight[s].req.op = op

\* app.get("/lottie.json"), statement by statement.
RunLottie(s) ==
  /\ Running(s, "GET /lottie.json")
  /\ LET a == inflight[s]
     IN CASE a.pc = "L34r" ->
               /\ Advance(s, "L34w", [count |-> requestCount])
               /\ UNCHANGED <<currentVersion, mode, lastModified, requestCount, answered>>
          [] a.pc = "L34w" ->
               /\ requestCount' = Incremented(a.loc.count)
               /\ Advance(s, "L35", << >>)
               /\ UNCHANGED <<currentVersion, mode, lastModified, answered>>
          [] a.pc = "L35" ->
               /\ Advance(s, "L37", [version |-> currentVersion])
               /\ UNCHANGED <<currentVersion, mode, lastModified, requestCount, answered>>
          [] a.pc = "L37" ->
               /\ Advance(s, "L48", [version |-> a.loc.version,
                                     lastModified |-> lastModified])
               /\ UNCHANGED <<currentVersion, mode, lastModified, requestCount, answered>>
          [] a.pc = "L48" ->
               /\ Finish(s, LottieResponse(a.loc.version, a.loc.lastModified,
                                           a.req.headers))
               /\ answered' = answered + 1
               /\ UNCHANGED <<currentVersion, mode, lastModified, requestCount>>

\* app.post("/flip"), statement by statement.
RunFlip(s) ==
  /\ Running(s, "POST /flip")
  /\ LET a == inflight[s]
     IN CASE a.pc = "L71r" ->
               /\ Advance(s, "L71w", [version |-> currentVersion])
               /\ UNCHANGED <<currentVersion, mode, lastModified, requestCount, answered>>
          [] a.pc = "L71w" ->
               /\ currentVersion' = FlipVersion(a.loc.version)
               /\ Advance(s, "L73", << >>)
               /\ UNCHANGED <<mode, lastModified, requestCount, answered>>
          [] a.pc = "L73" ->
               /\ Finish(s, [status |-> 200, headers |-> JsonContentType,
                             body |-> [version |-> currentVersion]])
               /\ UNCHANGED <<currentVersion, mode, lastModified, requestCount, answered>>

\* app.post("/mode"), statement by statement.
RunMode(s) ==
  /\ Running(s, "POST /mode")
  /\ LET a == inflight[s]
         newMode == a.req.body.mode
     IN CASE a.pc = "L79" ->
               /\ IF ~ValidMode(newMode)
                    THEN Finish(s, ModeHandler(newMode).res)
                    ELSE Advance(s, "L82", << >>)
               /\ UNCHANGED <<currentVersion, mode, lastModified, requestCount, answered>>
          [] a.pc = "L82" ->
               /\ mode' = newMode.v
               /\ Advance(s, "L84", << >>)
               /\ UNCHANGED <<currentVersion, lastModified, requestCount, answered>>
          [] a.pc = "L84" ->
               /\ Finish(s, [status |-> 200, headers |-> JsonContentType,
                             body |-> [mode |-> mode]])
               /\ UNCHANGED <<currentVersion, mode, lastModified, requestCount, answered>>

\* app.post("/lastModified"), statement by statement.
RunLastModified(s) ==
  /\ Running(s, "POST /lastModified")
  /\ LET a == inflight[s]
         iso == a.req.body.iso
     IN CASE a.pc = "L90" ->
               /\ IF ~Truthy(iso) \/ InvalidDate(NewDate(iso))
                    THEN Finish(s, LastModifiedHandler(iso).res)
                    ELSE Advance(s, "L97", [date |-> NewDate(iso)])
               /\ UNCHANGED <<currentVersion, mode, lastModified, requestCount, answered>>
          [] a.pc = "L97" ->
               /\ lastModified' = a.loc.date
               /\ Advance(s, "L99", << >>)
               /\ UNCHANGED <<currentVersion, mode, requestCount, answered>>
          [] a.pc = "L99" ->
               /\ Finish(s, [status |-> 200, headers |-> JsonContentType,
                             body |-> [lastModified |-> toISOString(lastModified)]])
               /\ UNCHANGED <<currentVersion, mode, lastModified, requestCount, answered>>

\* app.get("/state"), one state variable read per step.
RunState(s) ==
  /\ Running(s, "GET /state")
  /\ UNCHANGED <<currentVersion, mode, lastModified, requestCount, answered>>
  /\ LET a == inflight[s]
     IN CASE a.pc = "L104" ->
               Advance(s, "L107", [etag |-> computeETag(loadLottie(currentVersion))])
          [] a.pc = "L107" ->
               Advance(s, "L108", [etag |-> a.loc.etag, mode |-> mode])
          [] a.pc = "L108" ->
               Advance(s, "L109", [etag |-> a.loc.etag, mode |-> a.loc.mode,
                                   version |-> currentVersion])
          [] a.pc = "L109" ->
               Advance(s, "L111", [etag |-> a.loc.etag, mode |-> a.loc.mode,
                                   version |-> a.loc.version,
                                   lastModified |-> toISOString(lastModified)])
          [] a.pc = "L111" ->
               Advance(s, "L112", [etag |-> a.loc.etag, mode |-> a.loc.mode,
                                   version |-> a.loc.version,
                                   lastModified |-> a.loc.lastModified,
                                   requestCount |-> requestCount])
          [] a.pc = "L112" ->
               Finish(s, [status |-> 200, headers |-> JsonContentType,
                          body |-> [mode |-> a.loc.mode,
                                    version |-> a.loc.version,
                                    lastModified |-> a.loc.lastModified,
                                    etag |-> a.loc.etag,
                                    requestCount |-> a.loc.requestCount,
                                    cacheControl |-> IF mode = "B"
                                                       THEN Str(CacheControlValue)
                                                       ELSE Null]])

\* app.post("/reset"), statement by statement.
RunReset(s) ==
  /\ Running(s, "POST /reset")
  /\ LET a == inflight[s]
     IN CASE a.pc = "L118" ->
               /\ currentVersion' = ResetState.currentVersion
               /\ Advance(s, "L119", << >>)
               /\ UNCHANGED <<mode, lastModified, requestCount, answered>>
          [] a.pc = "L119" ->
               /\ mode' = ResetState.mode
               /\ Advance(s, "L120", << >>)
               /\ UNCHANGED <<currentVersion, lastModified, requestCount, answered>>
          [] a.pc = "L120" ->
               /\ lastModified' = ResetState.lastModified
               /\ Advance(s, "L121", << >>)
               /\ UNCHANGED <<currentVersion, mode, requestCount, answered>>
          [] a.pc = "L121" ->
               /\ requestCount' = ResetState.requestCount
               /\ answered' = 0
               /\ Advance(s, "L123", << >>)
               /\ UNCHANGED <<currentVersion, mode, lastModified>>
          [] a.pc = "L123" ->
               /\ Finish(s, [status |-> 200, headers |-> JsonContentType,
                             body |-> [ok |-> TRUE]])
               /\ UNCHANGED <<currentVersion, mode, lastModified, requestCount, answered>>

LoopNext ==
  \/ Dispatch /\ UNCHANGED appVars
  \/ (\E s \in Slots : RunLottie(s)) /\ UNCHANGED appVars
  \/ (\E s \in Slots : RunFlip(s)) /\ UNCHANGED appVars
  \/ (\E s \in Slots : RunMode(s)) /\ UNCHANGED appVars
  \/ (\E s \in Slots : RunLastModified(s)) /\ UNCHANGED appVars
  \/ (\E s \in Slots : RunState(s)) /\ UNCHANGED appVars
  \/ (\E s \in Slots : RunReset(s)) /\ UNCHANGED appVars

SpecLoop == Init /\ [][LoopNext]_vars

\* ------------------------------------------------------------- client app
\* The React Native app of App.tsx and src/api.ts: each button press starts an
\* async handler that runs up to its next await; the requests reach the
\* server one at a time and the responses come back in any order.
serverVars == <<currentVersion, mode, lastModified, requestCount>>

previews == <<animationJson, pngBase64, svgXml>>

HandlerSlots == 1 .. MaxPresses

\* A JavaScript object with the given fields.
Obj(fields) == [t |-> "object", v |-> fields]

\* type TabType = 'json' | 'png' | 'svg'
Tabs == {"json", "png", "svg"}

\* Bodies a GET can bring besides the server's two payloads: a proxy's error
\* page, Express's page for a path without a route, an image of each format.
GatewayPage == "<html>502 Bad Gateway</html>"
NotFoundPage == "<pre>Cannot GET /image</pre>"
PngBytes == "PNG:blue-circle"
SvgText == "<svg><circle/></svg>"

\* JSON.parse on the body texts of the model: the two payloads parse to
\* objects, "null" parses to null, the empty body of a 304 and the pages
\* throw.
JsonParse(text) ==
  CASE text = Assets["v1.json"] ->
         [threw |-> FALSE, value |-> Obj([demoVersion |-> 1, nm |-> "blue circle"])]
    [] text = Assets["v2.json"] ->
         [threw |-> FALSE, value |-> Obj([demoVersion |-> 2, nm |-> "red square"])]
    [] text = "null" -> [threw |-> FALSE, value |-> Null]
    [] OTHER -> [threw |-> TRUE]

\* Buffer.from(bytes).toString('base64') on the bodies of the model.
Base64Encode(bytes) ==
  CASE bytes = "" -> ""
    [] bytes = PngBytes -> "UE5HOmJsdWUtY2lyY2xl"
    [] bytes = SvgText -> "PHN2Zz48Y2lyY2xlLz48L3N2Zz4="
    [] bytes = NotFoundPage -> "PHByZT5DYW5ub3QgR0VUIC9pbWFnZTwvcHJlPg=="

\* Buffer.from(base64, 'base64').toString('utf8')
Utf8FromBase64(base64) ==
  CASE base64 = "" -> ""
    [] base64 = "UE5HOmJsdWUtY2lyY2xl" -> PngBytes
    [] base64 = "PHN2Zz48Y2lyY2xlLz48L3N2Zz4=" -> SvgText
    [] base64 = "PHByZT5DYW5ub3QgR0VUIC9pbWFnZTwvcHJlPg==" -> NotFoundPage

\* fetchLottie after the GET: the result built from the response.
LottieFetchResult(res) ==
  LET parsed == JsonParse(res.body)
      json == IF parsed.threw THEN Null ELSE parsed.value
  IN [status |-> res.status,
      demoVersion |-> IF json.t = "object" THEN Num(json.v.demoVersion) ELSE Null,
      json |-> json]

\* fetchImage after the GET: a 304 gives base64 null, any other status the
\* encoded body.
ImageFetchResult(res) ==
  IF res.status = 304
    THEN [status |-> 304, base64 |-> Null]
    ELSE [status |-> res.status, base64 |-> Str(Base64Encode(res.body))]

\* The headers the platform HTTP stack sends with GET /lottie.json: none, or
\* the validator of a copy of either variant it holds.
AppIfNoneMatchValues == {Undefined, Str(ETag1), Str(ETag2)}

\* What fetch(`${baseUrl}/lottie.json`) can resolve to without the server's
\* handler having run: a copy held by the platform cache, a proxy's page, a
\* body that parses to null.
LottieOtherResponses ==
  {[status |-> 200, body |-> loadLottie(v)] : v \in {1, 2}}
  \cup {[status |-> 502, body |-> GatewayPage], [status |-> 200, body |-> "null"]}

\* What fetch(`${baseUrl}/image.${format}`) can resolve to: the server of
\* index.js has no such route and Express answers 404 with a page; a host
\* with the route, or the platform cache, answers 200 with the image or 304.
ImageResponses(format) ==
  {[status |-> 404, body |-> NotFoundPage],
   [status |-> 304, body |-> ""],
   [status |-> 200, body |-> IF format = "png" THEN PngBytes ELSE SvgText]}

\* A handler that has returned; ok tells whether all its awaits resolved.
Done(ok) == [pc |-> "done", ok |-> ok]

Active(s) == handlers[s].pc \notin {"idle", "done"}

\* The slot of the next press.
Pressed(h) ==
  /\ presses < MaxPresses
  /\ handlers' = [handlers EXCEPT ![presses + 1] = h]
  /\ presses' = presses + 1

\* The GET issued without the await of clearCache.
FirstAwaitSkippingClear(noCache) == "request"

\* if (forceRefresh) { await NativeHttpCache.clearCache(); }
FirstAwait(noCache) == IF noCache THEN "clearCache" ELSE "request"

\* Fetch / Force Fetch: handleFetch, then handleFetchJson or handleFetchImage
\* up to the first await of fetchLottie or fetchImage.  The Fetch button is
\* disabled while loading, the Force Fetch button is not.
handleFetch ==
  \E tab \in Tabs, noCache \in BOOLEAN :
    /\ noCache \/ ~loading
    /\ loading' = TRUE
    /\ Pressed([pc |-> FirstAwait(noCache), op |-> "fetch", tab |-> tab,
                noCache |-> noCache, cleared |-> "no"])
    /\ UNCHANGED <<serverVars, last, serverState, previews>>

handleFlip ==
  /\ Pressed([pc |-> "request", op |-> "flip"])
  /\ UNCHANGED <<serverVars, last, loading, serverState, previews>>

handleSetMode ==
  \E m \in {"A", "B"} :
    /\ Pressed([pc |-> "request", op |-> "mode", arg |-> m])
    /\ UNCHANGED <<serverVars, last, loading, serverState, previews>>

\* The two buttons: "LM: Dec 15", and "LM: Now" pressed when the clock reads
\* 2025-12-15T00:00:00.000Z.
handleSetLastModified ==
  \E iso \in {"2025-12-15T00:00:00Z", toISOString(1765756800)} :
    /\ Pressed([pc |-> "request", op |-> "lastModified", arg |-> iso])
    /\ UNCHANGED <<serverVars, last, loading, serverState, previews>>

handleReset ==
  /\ Pressed([pc |-> "request", op |-> "reset"])
  /\ UNCHANGED <<serverVars, last, loading, serverState, previews>>

\* NativeHttpCache.clearCache() resolves: fetch(url) is called.
ClearCacheResolves(s) ==
  /\ handlers[s].pc = "clearCache"
  /\ handlers' = [handlers EXCEPT ![s].pc = "request", ![s].cleared = "resolved"]
  /\ UNCHANGED <<serverVars, last, loading, serverState, previews, presses>>

\* NativeHttpCache.clearCache() rejects: catch, then finally.
ClearCacheRejects(s) ==
  /\ handlers[s].pc = "clearCache"
  /\ loading' = FALSE
  /\ handlers' = [handlers EXCEPT ![s] = [pc |-> "done", ok |-> FALSE,
                                          cleared |-> "rejected"]]
  /\ UNCHANGED <<serverVars, last, serverState, previews, presses>>

\* The response of handler s's request is on its way back.
Answered(s, res) ==
  handlers' = [handlers EXCEPT ![s] =
                 [pc |-> "response", op |-> handlers[s].op, res |-> res]
                 @@ (IF handlers[s].op = "fetch"
                       THEN [tab |-> handlers[s].tab] ELSE << >>)]

\* The server handles the request a handler has sent.
Serve(s) ==
  LET h == handlers[s]
  IN /\ h.pc = "request"
     /\ h.op = "fetch" => h.tab = "json"
     /\ CASE h.op = "fetch" ->
               /\ GetLottie
               /\ last'.req.headers["if-none-match"] \in AppIfNoneMatchValues
               /\ last'.req.headers["if-modified-since"] = Undefined
          [] h.op = "flip" -> PostFlip
          [] h.op = "mode" -> PostMode /\ last'.req.body.mode = Str(h.arg)
          [] h.op = "lastModified" ->
               PostLastModified /\ last'.req.body.iso = Str(h.arg)
          [] h.op = "reset" -> PostReset
     /\ Answered(s, [status |-> last'.res.status, body |-> last'.res.body])
     /\ UNCHANGED <<loading, serverState, previews, presses>>

\* The request of a fetch is answered without the handler of index.js.
AnswerElsewhere(s) ==
  LET h == handlers[s]
  IN /\ h.pc = "request"
     /\ h.op = "fetch"
     /\ \E res \in IF h.tab = "json" THEN LottieOtherResponses
                                     ELSE ImageResponses(h.tab) :
          Answered(s, res)
     /\ UNCHANGED <<serverVars, last, loading, serverState, previews, presses>>

\* fetch() rejects (the request or its response is lost).  In the handler's
\* own request: catch, then finally; in refreshServerState: its own catch,
\* then the handler's finally.
Fails(s) ==
  /\ handlers[s].pc \in {"request", "response", "state", "stateResponse"}
  /\ loading' = IF handlers[s].op = "fetch" THEN FALSE ELSE loading
  /\ handlers' = [handlers EXCEPT ![s] = Done(FALSE)]
  /\ UNCHANGED <<serverVars, last, serverState, previews, presses>>

\* setAnimationJson whatever the result holds.
NextAnimationJsonUnconditional(result) == result.json

\* if (result.json) { setAnimationJson(result.json) }
NextAnimationJson(result) ==
  IF Truthy(result.json) THEN result.json ELSE animationJson

\* if (result.base64) { setPngBase64(result.base64) }
NextPngBase64(result) ==
  IF Truthy(result.base64) THEN result.base64 ELSE pngBase64

\* if (result.base64) { setSvgXml(Buffer.from(result.base64, 'base64').toString('utf8')) }
NextSvgXml(result) ==
  IF Truthy(result.base64) THEN Str(Utf8FromBase64(result.base64.v)) ELSE svgXml

\* The handler resumes with the response of its request, up to the await of
\* getServerState in refreshServerState.
Receive(s) ==
  LET h == handlers[s]
  IN /\ h.pc = "response"
     /\ CASE h.op = "fetch" /\ h.tab = "json" ->
               /\ animationJson' = NextAnimationJson(LottieFetchResult(h.res))
               /\ UNCHANGED <<pngBase64, svgXml>>
          [] h.op = "fetch" /\ h.tab = "png" ->
               /\ pngBase64' = NextPngBase64(ImageFetchResult(h.res))
               /\ UNCHANGED <<animationJson, svgXml>>
          [] h.op = "fetch" /\ h.tab = "svg" ->
               /\ svgXml' = NextSvgXml(ImageFetchResult(h.res))
               /\ UNCHANGED <<animationJson, pngBase64>>
          [] h.op = "reset" ->
               /\ animationJson' = Null
               /\ pngBase64' = Null
               /\ svgXml' = Null
          [] OTHER -> UNCHANGED previews
     /\ handlers' = [handlers EXCEPT ![s] = [pc |-> "state", op |-> h.op]]
     /\ UNCHANGED <<serverVars, last, loading, serverState, presses>>

\* The server handles the GET /state of refreshServerState.
ServeState(s) ==
  /\ handlers[s].pc = "state"
  /\ GetState
  /\ handlers' = [handlers EXCEPT ![s] = [pc |-> "stateResponse",
                                          op |-> handlers[s].op,
                                          body |-> last'.res.body]]
  /\ UNCHANGED <<loading, serverState, previews, presses>>

\* setServerState(state), then the handler returns (finally: setLoading(false)).
ReceiveState(s) ==
  /\ handlers[s].pc = "stateResponse"
  /\ serverState' = Obj(handlers[s].body)
  /\ loading' = IF handlers[s].op = "fetch" THEN FALSE ELSE loading
  /\ handlers' = [handlers EXCEPT ![s] = Done(TRUE)]
  /\ UNCHANGED <<serverVars, last, previews, presses>>

AppNext ==
  \/ handleFetch /\ UNCHANGED loopVars
  \/ handleFlip /\ UNCHANGED loopVars
  \/ handleSetMode /\ UNCHANGED loopVars
  \/ handleSetLastModified /\ UNCHANGED loopVars
  \/ handleReset /\ UNCHANGED loopVars
  \/ (\E s \in HandlerSlots : ClearCacheResolves(s)) /\ UNCHANGED loopVars
  \/ (\E s \in HandlerSlots : ClearCacheRejects(s)) /\ UNCHANGED loopVars
  \/ (\E s \in HandlerSlots : Serve(s)) /\ UNCHANGED loopVars
  \/ (\E s \in HandlerSlots : AnswerElsewhere(s)) /\ UNCHANGED loopVars
  \/ (\E s \in HandlerSlots : Fails(s)) /\ UNCHANGED loopVars
  \/ (\E s \in HandlerSlots : Receive(s)) /\ UNCHANGED loopVars
  \/ (\E s \in HandlerSlots : ServeState(s)) /\ UNCHANGED loopVars
  \/ (\E s \in HandlerSlots : ReceiveState(s)) /\ UNCHANGED loopVars

SpecApp == Init /\ [][AppNext]_vars

\* ----------------------------------------------------------------- claims
IsLottie(e) == e.req.op = "GET /lottie.json"

\* The quoted hex digest of the active variant's payload, built from the
\* asset of the version in the state.
QuotedDigestOfActive ==
  "\"" \o Sha256Hex(Assets["v" \o ToString(currentVersion) \o ".json"]) \o "\""

\* C1: a GET /lottie.json is answered 304 with an empty body exactly when its
\* If-None-Match value is, character for character, the quoted hex digest of
\* the active variant's payload; every other value (absent, empty, weak,
\* unquoted, "*", the other variant's ETag) gets 200 with the active
\* variant's full body.
C1_ExactMatchOnly ==
  IsLottie(last) =>
    LET f == last.req.headers["if-none-match"]
        exact == f.t = "string" /\ f.v = QuotedDigestOfActive
    IN /\ (last.res.status = 304 /\ last.res.body = "") <=> exact
       /\ ~exact => (last.res.status = 200
                     /\ last.res.body = Assets["v" \o ToString(currentVersion) \o ".json"])

C1_Witness ==
  /\ IsLottie(last)
  /\ last.res.status = 304
  /\ currentVersion = 2
  /\ last.req.headers["if-none-match"] = Str(ETag2)

\* C2 as stated: a GET /lottie.json answered with 304 leaves the counter
\* reported by GET /state as it was.
C2_NotCountedOn304 ==
  [][(IsLottie(last') /\ last'.res.status = 304)
       => StateBody'.requestCount = StateBody.requestCount]_vars

\* C2 amended: a GET /lottie.json answered with 304 increments the counter
\* reported by GET /state by exactly one, as a 200 does.
C2_CountedOn304 ==
  [][(IsLottie(last') /\ last'.res.status = 304)
       => StateBody'.requestCount = StateBody.requestCount + 1]_vars

C2_Witness ==
  /\ IsLottie(last)
  /\ last.res.status = 304
  /\ requestCount = last.before.requestCount + 1
  /\ requestCount >= 2

\* C3: a GET /lottie.json answered with 200 increments the request counter by
\* exactly one.
C3_CountedOn200 ==
  [][(IsLottie(last') /\ last'.res.status = 200)
       => requestCount' = requestCount + 1]_vars

C3_Witness ==
  /\ IsLottie(last)
  /\ last.res.status = 200
  /\ last.before.requestCount = 1
  /\ requestCount = 2

\* C4: the count reported by GET /state grows on every GET /lottie.json the
\* server handles, whatever the answer, and it decreases only on POST /reset.
C4_CountTracksContacts ==
  [][/\ IsLottie(last') => StateBody'.requestCount > StateBody.requestCount
     /\ StateBody'.requestCount < StateBody.requestCount
          => last'.req.op = "POST /reset"]_vars

C4_Witness ==
  /\ IsLottie(last)
  /\ last.req.headers["if-none-match"] = Undefined
  /\ requestCount > last.before.requestCount
  /\ requestCount = MaxRequests

\* C5: GET /state exposes one count per resource type, under the names the
\* client reads: jsonCount, pngCount and svgCount.
C5_PerTypeCounts ==
  last.req.op = "GET /state" =>
    {"jsonCount", "pngCount", "svgCount"} \subseteq DOMAIN last.res.body

\* C6: a flip always changes the active variant, and the second of two
\* consecutive flips restores the variant the first one found.
C6_FlipInvolution ==
  [][/\ last'.req.op = "POST /flip" => currentVersion' # currentVersion
     /\ (last.req.op = "POST /flip" /\ last'.req.op = "POST /flip")
          => currentVersion' = last.before.currentVersion]_vars

C6_Witness ==
  /\ last.req.op = "POST /flip"
  /\ last.before.currentVersion = 2
  /\ currentVersion = 1

\* C7: the active variant is always 1 or 2; only POST /flip changes it, apart
\* from POST /reset which sets it to 1; and the version POST /flip answers
\* with is the version GET /state reports right after.
C7_VariantDomain ==
  /\ currentVersion \in {1, 2}
  /\ [][/\ currentVersion' \in {1, 2}
        /\ currentVersion' # currentVersion
             => \/ last'.req.op = "POST /flip"
                \/ last'.req.op = "POST /reset" /\ currentVersion' = 1
        /\ last'.req.op = "POST /flip"
             => last'.res.body.version = StateBody'.version]_vars

C7_Witness ==
  /\ last.req.op = "POST /flip"
  /\ last.res.body.version = 2
  /\ currentVersion = 2

\* The server state is left as it was.
StateUnchanged == UNCHANGED <<currentVersion, mode, lastModified, requestCount>>

\* C8: POST /mode with a mode that is neither "A" nor "B" (a missing field
\* included) is answered 400 with an error body and changes no state field.
C8_BadModeRejected ==
  [][(/\ last'.req.op = "POST /mode"
      /\ last'.req.body.mode \notin {Str("A"), Str("B")})
       => /\ last'.res.status = 400
          /\ DOMAIN last'.res.body = {"error"}
          /\ StateUnchanged]_vars

C8_Witness ==
  /\ last.req.op = "POST /mode"
  /\ last.req.body.mode = Str("C")
  /\ last.res.status = 400
  /\ mode = "B"

\* A missing, empty or unparseable iso value.
BadIso(iso) ==
  \/ iso = Undefined
  \/ iso = Str("")
  \/ iso.t = "string" /\ DateParse(iso.v) = NaN

\* C9: POST /lastModified with a missing, empty or unparseable iso value is
\* answered 400 with an error body and changes no state field.
C9_BadIsoRejected ==
  [][(/\ last'.req.op = "POST /lastModified"
      /\ BadIso(last'.req.body.iso))
       => /\ last'.res.status = 400
          /\ DOMAIN last'.res.body = {"error"}
          /\ StateUnchanged]_vars

C9_Witness ==
  /\ last.req.op = "POST /lastModified"
  /\ last.req.body.iso = Str("not-a-date")
  /\ last.res.status = 400
  /\ lastModified = DateParse("2025-12-15T00:00:00Z")

\* What GET /state answers on a server with its defaults.
DefaultStateBody ==
  [mode |-> "A", version |-> 1, lastModified |-> "2025-12-01T00:00:00.000Z",
   etag |-> ETag1, requestCount |-> 0, cacheControl |-> Null]

\* C10: POST /reset always answers 200 {ok: true} and leaves version 1, mode
\* A, counter 0 and lastModified 2025-12-01T00:00:00Z; a GET /state right
\* after it answers exactly these defaults; a second reset changes nothing.
C10_ResetRestoresDefaults ==
  [][/\ last'.req.op = "POST /reset"
          => /\ last'.res.status = 200
             /\ last'.res.body = [ok |-> TRUE]
             /\ currentVersion' = 1
             /\ mode' = "A"
             /\ requestCount' = 0
             /\ lastModified' = DateParse("2025-12-01T00:00:00Z")
             /\ StateBody' = DefaultStateBody
     /\ (last.req.op = "POST /reset" /\ last'.req.op = "GET /state")
          => last'.res.body = DefaultStateBody
     /\ (last.req.op = "POST /reset" /\ last'.req.op = "POST /reset")
          => StateUnchanged]_vars

C10_Witness ==
  /\ last.req.op = "POST /reset"
  /\ last.before.currentVersion = 2
  /\ last.before.mode = "B"
  /\ last.before.requestCount > 0
  /\ last.before.lastModified # DateParse("2025-12-01T00:00:00Z")
  /\ State = ResetState

\* C11: every GET /lottie.json response, 200 or 304, has a Cache-Control
\* header when the mode at the time of the request is B and has none when it
\* is A.
C11_CacheControlIffModeB ==
  IsLottie(last) =>
    /\ last.res.status \in {200, 304}
    /\ ("Cache-Control" \in DOMAIN last.res.headers) <=> (last.before.mode = "B")

C11_Witness ==
  /\ IsLottie(last)
  /\ last.res.status = 304
  /\ last.before.mode = "B"
  /\ "Cache-Control" \in DOMAIN last.res.headers

C13_MustRevalidate ==
  (IsLottie(last) /\ last.before.mode = "B")
    => /\ "Cache-Control" \in DOMAIN last.res.headers
       /\ last.res.headers["Cache-Control"] = "public, max-age=30, must-revalidate"

\* The HTTP date of the lastModified values the requests of the model can set.
HttpDateOf(date) ==
  CASE date = 1764547200 -> "Mon, 01 Dec 2025 00:00:00 GMT"
    [] date = 1765756800 -> "Mon, 15 Dec 2025 00:00:00 GMT"
    [] date = 1749945600 -> "Sun, 15 Jun 2025 00:00:00 GMT"
    [] date = 86400 -> "Fri, 02 Jan 1970 00:00:00 GMT"

\* C14: every GET /lottie.json response, 200 or 304, has an ETag header equal
\* to the fingerprint of the active variant and a Last-Modified header equal
\* to the server's lastModified.
C14_ValidatorsAlwaysSent ==
  IsLottie(last) =>
    /\ last.res.status \in {200, 304}
    /\ {"ETag", "Last-Modified"} \subseteq DOMAIN last.res.headers
    /\ last.res.headers["ETag"] = QuotedDigestOfActive
    /\ last.res.headers["Last-Modified"] = HttpDateOf(lastModified)

C14_Witness ==
  /\ IsLottie(last)
  /\ last.res.status = 304
  /\ currentVersion = 2
  /\ last.res.headers["Last-Modified"] = "Sun, 15 Jun 2025 00:00:00 GMT"

\* The lastModified values the requests of the model can set.
LastModifiedValues == {1764547200, 1765756800, 1749945600, 86400}

\* C15: the status and the body of a GET /lottie.json response are those the
\* same request gets with any other lastModified value in the server and any
\* other If-Modified-Since header.
C15_TimestampsIgnored ==
  IsLottie(last) =>
    \A lm \in LastModifiedValues, ims \in IfModifiedSinceValues :
      LET other == LottieResponse(last.before.currentVersion, lm,
                     [last.req.headers EXCEPT !["if-modified-since"] = ims])
      IN /\ other.status = last.res.status
         /\ other.body = last.res.body

C15_Witness ==
  /\ IsLottie(last)
  /\ last.req.headers["if-modified-since"] = Str("Mon, 01 Dec 2025 00:00:00 GMT")
  /\ last.res.headers["Last-Modified"] = "Mon, 01 Dec 2025 00:00:00 GMT"
  /\ last.res.status = 200

\* C16: GET /state changes no state field, the counter included.
C16_GetStateReadOnly ==
  [][last'.req.op = "GET /state" => StateUnchanged]_vars

C16_Witness ==
  /\ last.req.op = "GET /state"
  /\ State = last.before
  /\ requestCount = 2
  /\ last.res.body.requestCount = 2

\* A GET /lottie.json without If-None-Match.
PlainGet(e) == IsLottie(e) /\ e.req.headers["if-none-match"] = Undefined

\* C17: on a fresh or just reset server a GET /lottie.json gets 200, variant 1
\* and counter 1; after a POST /flip the next GET gets 200, variant 2, counter
\* 2 and another ETag; a GET with If-None-Match set to that ETag gets 304 with
\* an empty body.
C17_Scenario ==
  [][/\ (last.req.op \in {"none", "POST /reset"} /\ PlainGet(last'))
          => /\ last'.res.status = 200
             /\ last'.res.body = Assets["v1.json"]
             /\ last'.res.headers["ETag"] = ETag1
             /\ StateBody'.requestCount = 1
     /\ (PlainGet(last) /\ last.before = ResetState /\ last'.req.op = "POST /flip")
          => State' = [ResetState EXCEPT !.currentVersion = 2, !.requestCount = 1]
     /\ (/\ last.req.op = "POST /flip"
         /\ last.before = [ResetState EXCEPT !.requestCount = 1]
         /\ PlainGet(last'))
          => /\ last'.res.status = 200
             /\ last'.res.body = Assets["v2.json"]
             /\ last'.res.headers["ETag"] # ETag1
             /\ StateBody'.requestCount = 2
     /\ (/\ PlainGet(last)
         /\ last.before = [ResetState EXCEPT !.currentVersion = 2, !.requestCount = 1]
         /\ IsLottie(last')
         /\ last'.req.headers["if-none-match"] = Str(last.res.headers["ETag"]))
          => /\ last'.res.status = 304
             /\ last'.res.body = ""]_vars

C17_Witness ==
  /\ IsLottie(last)
  /\ last.before = [ResetState EXCEPT !.currentVersion = 2, !.requestCount = 2]
  /\ last.req.headers["if-none-match"] = Str(ETag2)
  /\ last.res.status = 304
  /\ last.res.body = ""

\* The snapshot body b and the GET /lottie.json response r agree.
SnapshotAgrees(b, r) ==
  /\ b.etag = r.headers["ETag"]
  /\ IF b.mode = "B"
       THEN /\ "Cache-Control" \in DOMAIN r.headers
            /\ b.cacheControl = Str(r.headers["Cache-Control"])
       ELSE /\ "Cache-Control" \notin DOMAIN r.headers
            /\ b.cacheControl = Null

\* C18: a GET /state and a GET /lottie.json made one after the other agree:
\* the etag field is the ETag header, and cacheControl is the Cache-Control
\* header value in mode B and null in mode A; after POST /reset cacheControl
\* is null.
C18_SnapshotAgreesWithHeaders ==
  [][/\ (last.req.op = "GET /state" /\ IsLottie(last'))
          => SnapshotAgrees(last.res.body, last'.res)
     /\ (IsLottie(last) /\ last'.req.op = "GET /state")
          => SnapshotAgrees(last'.res.body, last.res)
     /\ last'.req.op = "POST /reset" => StateBody'.cacheControl = Null
     /\ (last.req.op = "POST /reset" /\ last'.req.op = "GET /state")
          => last'.res.body.cacheControl = Null]_vars

C18_Witness ==
  /\ last.req.op = "POST /reset"
  /\ last.before.mode = "B"
  /\ last.before.currentVersion = 2
  /\ StateBody.cacheControl = Null

\* C20: in every reachable state each of the six operations can be taken
\* (GET /lottie.json as long as the model's request bound is not reached),
\* each request is answered once, and whether it is refused depends on the
\* request alone: flip, state and reset are answered 200, GET /lottie.json
\* 200 or 304, POST /mode 200 for "A" and "B", POST /lastModified 200 for a
\* parseable date.
C20_NeverBlocked ==
  /\ ENABLED PostFlip
  /\ ENABLED PostMode
  /\ ENABLED PostLastModified
  /\ ENABLED GetState
  /\ ENABLED PostReset
  /\ requestCount < MaxRequests => ENABLED GetLottie
  /\ last.req.op \in {"POST /flip", "GET /state", "POST /reset"}
       => last.res.status = 200
  /\ IsLottie(last) => last.res.status \in {200, 304}
  /\ last.req.op = "POST /mode"
       => last.res.status = (IF last.req.body.mode \in {Str("A"), Str("B")}
                               THEN 200 ELSE 400)
  /\ last.req.op = "POST /lastModified"
       => last.res.status = (IF \/ ~Truthy(last.req.body.iso)
                                \/ NewDate(last.req.body.iso) = NaN
                               THEN 400 ELSE 200)

C20_Witness ==
  /\ last.req.op = "POST /mode"
  /\ last.req.body.mode = Str("B")
  /\ last.before.mode = "B"
  /\ last.res.status = 200
  /\ requestCount = 2
  /\ currentVersion = 2

\* The slots with a handler in progress.
InFlight == {s \in Slots : inflight[s] # Idle}

\* The exchange e and the server state st after it are what its handler does
\* when it runs alone from the state e.before.
TookEffectAtOnce(e, st) ==
  LET b == e.before
      q == e.req
      r == e.res
  IN CASE q.op = "GET /lottie.json" ->
            /\ r.status \in {200, 304}
            /\ r.headers["ETag"] = computeETag(loadLottie(b.currentVersion))
            /\ r.body = (IF r.status = 200 THEN loadLottie(b.currentVersion) ELSE "")
            /\ r.headers["Last-Modified"] = toUTCString(b.lastModified)
            /\ ("Cache-Control" \in DOMAIN r.headers) <=> (b.mode = "B")
            /\ st = [b EXCEPT !.requestCount = @ + 1]
       [] q.op = "GET /state" ->
            /\ r.body = [mode |-> b.mode,
                         version |-> b.currentVersion,
                         lastModified |-> toISOString(b.lastModified),
                         etag |-> computeETag(loadLottie(b.currentVersion)),
                         requestCount |-> b.requestCount,
                         cacheControl |-> IF b.mode = "B"
                                            THEN Str("public, max-age=30") ELSE Null]
            /\ st = b
       [] q.op = "POST /flip" ->
            /\ st = [b EXCEPT !.currentVersion = 3 - @]
            /\ r.body = [version |-> st.currentVersion]
       [] q.op = "POST /mode" ->
            IF r.status = 200
              THEN /\ st = [b EXCEPT !.mode = q.body.mode.v]
                   /\ r.body = [mode |-> q.body.mode.v]
              ELSE st = b
       [] q.op = "POST /lastModified" ->
            IF r.status = 200
              THEN /\ st = [b EXCEPT !.lastModified = NewDate(q.body.iso)]
                   /\ r.body = [lastModified |-> toISOString(NewDate(q.body.iso))]
              ELSE st = b
       [] q.op = "POST /reset" ->
            st = [currentVersion |-> 1, mode |-> "A",
                  lastModified |-> DateParse("2025-12-01T00:00:00Z"),
                  requestCount |-> 0]

\* C19: whatever the order in which requests arrive, at most one handler is
\* in progress at a time; when none is, the counter equals the number of
\* GET /lottie.json requests answered since it was last zeroed (no lost
\* update); and every response, with the state it leaves, is what its handler
\* does alone from the state it started in (no partly applied flip, mode
\* change or reset is observed).
C19_RequestsAreAtomic ==
  /\ [](Cardinality(InFlight) <= 1)
  /\ [](AllIdle => requestCount = answered)
  /\ [][last' # last => TookEffectAtOnce(last', State')]_vars

C19_Witness ==
  /\ AllIdle
  /\ IsLottie(last)
  /\ last.before.requestCount = 1
  /\ last.before.mode = "B"
  /\ last.before.currentVersion = 2
  /\ requestCount = 2
  /\ answered = 2

\* The ISO string of the lastModified values the requests of the model can set.
IsoStringOf(date) ==
  CASE date = 1764547200 -> "2025-12-01T00:00:00.000Z"
    [] date = 1765756800 -> "2025-12-15T00:00:00.000Z"
    [] date = 1749945600 -> "2025-06-15T00:00:00.000Z"
    [] date = 86400 -> "1970-01-02T00:00:00.000Z"

\* The instant a request body's iso value names.
InstantOf(iso) ==
  CASE iso = Str("2025-12-15T00:00:00Z") -> 1765756800
    [] iso = Str("2025-06-15T00:00:00Z") -> 1749945600
    [] iso = Num(86400000) -> 86400

\* C21: a POST /lastModified answered 200 leaves lastModified at the instant
\* it was sent; lastModified changes on no other request than such a POST or
\* a POST /reset; and every GET /lottie.json Last-Modified header and every
\* GET /state lastModified field is the stored instant.
C21_LastModifiedReported ==
  /\ [](/\ IsLottie(last)
             => last.res.headers["Last-Modified"] = HttpDateOf(lastModified)
        /\ last.req.op = "GET /state"
             => last.res.body.lastModified = IsoStringOf(lastModified))
  /\ [][/\ (last'.req.op = "POST /lastModified" /\ last'.res.status = 200)
             => lastModified' = InstantOf(last'.req.body.iso)
        /\ lastModified' # lastModified
             => \/ last'.req.op = "POST /lastModified" /\ last'.res.status = 200
                \/ last'.req.op = "POST /reset"]_vars

C21_Witness ==
  /\ last.req.op = "GET /state"
  /\ lastModified = 1749945600
  /\ last.res.body.lastModified = "2025-06-15T00:00:00.000Z"
  /\ requestCount > 0

\* C22: a POST /flip changes the variant and nothing else, a POST /mode
\* answered 200 sets the mode and nothing else, a POST /lastModified answered
\* 200 sets lastModified and nothing else, and a GET /lottie.json changes the
\* counter and nothing else.
C22_FieldsIndependent ==
  [][/\ last'.req.op = "POST /flip"
          => /\ currentVersion' # currentVersion
             /\ UNCHANGED <<mode, lastModified, requestCount>>
     /\ (last'.req.op = "POST /mode" /\ last'.res.status = 200)
          => /\ Str(mode') = last'.req.body.mode
             /\ UNCHANGED <<currentVersion, lastModified, requestCount>>
     /\ (last'.req.op = "POST /lastModified" /\ last'.res.status = 200)
          => /\ lastModified' = InstantOf(last'.req.body.iso)
             /\ UNCHANGED <<currentVersion, mode, requestCount>>
     /\ IsLottie(last')
          => /\ requestCount' # requestCount
             /\ UNCHANGED <<currentVersion, mode, lastModified>>]_vars

C22_Witness ==
  /\ last.req.op = "POST /flip"
  /\ last.before = [currentVersion |-> 2, mode |-> "B",
                    lastModified |-> 1765756800, requestCount |-> 2]
  /\ State = [currentVersion |-> 1, mode |-> "B",
              lastModified |-> 1765756800, requestCount |-> 2]

\* The request headers of a GET /lottie.json with If-None-Match inm.
WithIfNoneMatch(inm) ==
  [x \in {"if-none-match", "if-modified-since"} |->
     IF x = "if-none-match" THEN inm ELSE Undefined]

\* The status a GET /lottie.json carrying inm gets in the current state.
StatusFor(inm) ==
  LottieResponse(currentVersion, lastModified, WithIfNoneMatch(inm)).status

\* C23: a GET /lottie.json that follows a POST /flip and carries the ETag of
\* the variant before the flip gets 200 with the new variant's body; the
\* second of two consecutive flips brings back the fingerprint the first one
\* found; in every state, whatever the mode, lastModified and the counter, an
\* If-None-Match value gets 304 exactly when it is the fingerprint of the
\* active variant; and a step that is not a flip or a reset leaves the active
\* variant, hence every matching ETag, as it was.
C23_FingerprintOfVariantOnly ==
  /\ [](\A inm \in IfNoneMatchValues :
          StatusFor(inm) = 304
            <=> inm = Str(computeETag(loadLottie(currentVersion))))
  /\ [][/\ (/\ last.req.op = "POST /flip"
            /\ IsLottie(last')
            /\ last'.req.headers["if-none-match"]
                 = Str(computeETag(loadLottie(last.before.currentVersion))))
             => /\ last'.res.status = 200
                /\ last'.res.body = loadLottie(currentVersion)
                /\ currentVersion # last.before.currentVersion
        /\ (last.req.op = "POST /flip" /\ last'.req.op = "POST /flip")
             => computeETag(loadLottie(currentVersion'))
                  = computeETag(loadLottie(last.before.currentVersion))
        /\ last'.req.op \notin {"POST /flip", "POST /reset"}
             => currentVersion' = currentVersion]_vars

C23_Witness ==
  /\ IsLottie(last)
  /\ last.before.currentVersion = 2
  /\ last.req.headers["if-none-match"] = Str(ETag1)
  /\ last.res.status = 200
  /\ last.res.body = Assets["v2.json"]
  /\ last.before.mode = "B"

\* The handler of slot s is a fetch that has not returned.
FetchActive(s) == Active(s) /\ handlers[s].op = "fetch"

\* C24: a handler has called clearCache only if its fetch is a forced one; the
\* GET of a forced fetch is issued once clearCache has resolved, and that of a
\* fetch that is not forced without any clearCache call; a handler whose
\* clearCache has rejected returns from that await without issuing a GET.
C24_ClearBeforeGet ==
  /\ [](\A s \in HandlerSlots :
          /\ handlers[s].pc = "clearCache" => handlers[s].noCache
          /\ (handlers[s].pc = "request" /\ handlers[s].op = "fetch")
               => handlers[s].cleared = (IF handlers[s].noCache
                                           THEN "resolved" ELSE "no")
          /\ (Active(s) /\ handlers[s].op # "fetch")
               => "cleared" \notin DOMAIN handlers[s])
  /\ [][\A s \in HandlerSlots :
          /\ (handlers[s].pc = "clearCache" /\ handlers'[s].pc = "request")
               => handlers'[s].cleared = "resolved"
          /\ (/\ handlers[s].pc # "done"
              /\ handlers'[s].pc = "done"
              /\ "cleared" \in DOMAIN handlers'[s])
               => /\ handlers'[s].cleared = "rejected"
                  /\ handlers[s].pc = "clearCache"
                  /\ UNCHANGED <<serverVars, last>>]_vars

C24_Witness ==
  \E s, t \in HandlerSlots :
    /\ handlers[s].pc = "done"
    /\ "cleared" \in DOMAIN handlers[s]
    /\ handlers[t].pc = "request"
    /\ handlers[t].op = "fetch"
    /\ handlers[t].noCache
    /\ handlers[t].cleared = "resolved"

\* C25: loading is true whenever a handler started by Fetch or Force Fetch
\* has not returned, and false when none is left.
C25_LoadingIffFetching ==
  /\ (\E s \in HandlerSlots : FetchActive(s)) => loading
  /\ (\A s \in HandlerSlots : ~FetchActive(s)) => ~loading

\* C26: once every handler that was started has returned with all its awaits
\* resolved, the displayed serverState is what GET /state answers.
C26_DisplayedStateIsActual ==
  (presses > 0 /\ \A s \in 1 .. presses : handlers[s] = Done(TRUE))
    => serverState = Obj(StateBody)

\* The body texts the animation can be built from.
UsableJson == {Assets["v1.json"], Assets["v2.json"]}

\* The handler of slot s resumes with the response of its request.
Resumes(s) == handlers[s].pc = "response" /\ handlers'[s].pc = "state"

\* C27: a fetch handler that resumes with a 304, with a body that is not
\* valid JSON or, for an image, with a 304 (base64 null) leaves the three
\* previews as they were; a preview changes only when a handler resumes, to
\* the parsed body of a response that has one, or to null when the handler is
\* that of Reset and its POST was answered.
C27_PreviewKept ==
  [][/\ \A s \in HandlerSlots :
          (Resumes(s) /\ handlers[s].op = "fetch")
            => LET res == handlers[s].res
                   tab == handlers[s].tab
               IN /\ res.status = 304 => UNCHANGED previews
                  /\ (tab = "json" /\ res.body \notin UsableJson)
                       => UNCHANGED previews
                  /\ animationJson' # animationJson
                       => /\ tab = "json"
                          /\ res.body \in UsableJson
                          /\ animationJson' = JsonParse(res.body).value
                  /\ pngBase64' # pngBase64
                       => /\ tab = "png"
                          /\ res.body # ""
                          /\ pngBase64' = Str(Base64Encode(res.body))
                  /\ svgXml' # svgXml
                       => /\ tab = "svg"
                          /\ res.body # ""
                          /\ svgXml' = Str(res.body)
     /\ previews' # previews => \E s \in HandlerSlots : Resumes(s)
     /\ (\E v \in {1, 2, 3} : previews[v] # Null /\ previews'[v] = Null)
          => \E s \in HandlerSlots :
               /\ Resumes(s)
               /\ handlers[s].op = "reset"
               /\ handlers[s].res.status = 200]_vars

C27_Witness ==
  /\ IsLottie(last)
  /\ last.res.status = 304
  /\ handlers[1] = Done(TRUE)
  /\ handlers[2] = [pc |-> "state", op |-> "fetch"]
  /\ animationJson = Obj([demoVersion |-> 1, nm |-> "blue circle"])

====
